---- MODULE Spec2Model ----
(***************************************************************************)
(* A model of dbcore::KVDB (dbcore/src/lib.rs): an in-memory key-value     *)
(* store whose keys hold a String, a Set of strings or a Hash of strings,  *)
(* with an optional ceiling on the number of keys and a ttl side table.    *)
(*                                                                         *)
(* Encoding.  Option<T> is a set with at most one element: {} is None and  *)
(* {x} is Some(x).  A HashMap is a total function whose absent keys map to *)
(* a distinguished value (the Absent entry for db, {} for ttl and for the  *)
(* fields of a hash).  A Vec is a sequence.                                *)
(***************************************************************************)
EXTENDS Integers, Sequences, FiniteSets, TLC

\* ---------------------------------------------------------------- bounds
\* Longest Vec handed to an operation (members, pairs, fields, keys), and the
\* largest count handed to srandmember.
MaxLen == 2
\* Largest ceiling a store is built with (KVDB::new(Some(n)), n in 0..MaxCap).
MaxCap == 1

\* ---------------------------------------------------------------- domains
Keys == {"k1", "k2"}
Strs == {"a", "b"}
Fields == {"f", "g"}
Expires == {1, 2}

SeqsUpTo(S, n) == UNION {[1..i -> S] : i \in 0..n}
Range(q) == {q[i] : i \in 1..Len(q)}
Min(x, y) == IF x < y THEN x ELSE y
Option(S) == {{}} \cup {{x} : x \in S}
Unwrap(o) == CHOOSE x \in o : TRUE

\* ---------------------------------------------------------------- enum Value
EmptyHash == [f \in Fields |-> {}]
Absent == [tag |-> "Absent", s |-> "", m |-> {}, h |-> EmptyHash]
StringValue(s) == [tag |-> "StringValue", s |-> s, m |-> {}, h |-> EmptyHash]
SetValue(m) == [tag |-> "SetValue", s |-> "", m |-> m, h |-> EmptyHash]
HashValue(h) == [tag |-> "HashValue", s |-> "", m |-> {}, h |-> h]
HashLen(h) == Cardinality({f \in Fields : h[f] # {}})

\* ---------------------------------------------------------------- results
\* Result<T>: tag names the outcome, the other fields carry the payload.
\*   Ok / Nil                                   Ok(DBOk::Ok), Ok(DBOk::Nil)
\*   WrongValueType / OutOfKeysSize / KeyNotFound    Err(DBError::..)
\*   None / Some                                Ok(None), Ok(Some(payload))
\*   Val                                        Ok(payload) of a plain type
NoRet == [tag |-> "Unit", n |-> 0, s |-> "", b |-> FALSE, m |-> {}, l |-> <<>>]
Tag(t) == [NoRet EXCEPT !.tag = t]
DBOkOk == Tag("Ok")
DBOkNil == Tag("Nil")
ErrWrongValueType == Tag("WrongValueType")
ErrOutOfKeysSize == Tag("OutOfKeysSize")
ErrKeyNotFound == Tag("KeyNotFound")
OkNone == Tag("None")
SomeStr(s) == [NoRet EXCEPT !.tag = "Some", !.s = s]
SomeSet(m) == [NoRet EXCEPT !.tag = "Some", !.m = m]
SomeNum(n) == [NoRet EXCEPT !.tag = "Some", !.n = n]
SomeBool(b) == [NoRet EXCEPT !.tag = "Some", !.b = b]
SomeVec(l) == [NoRet EXCEPT !.tag = "Some", !.l = l]
ValNum(n) == [NoRet EXCEPT !.tag = "Val", !.n = n]
ValBool(b) == [NoRet EXCEPT !.tag = "Val", !.b = b]
ValVec(l) == [NoRet EXCEPT !.tag = "Val", !.l = l]

\* ---------------------------------------------------------------- calls
\* A call on the store: the method and its arguments.  NoCall: the caller has
\* no call whose result it is still looking at.
NoCall ==
  [op |-> "none", key |-> "", value |-> "", not_exists |-> FALSE,
   already_exists |-> FALSE, expire |-> {}, members |-> <<>>, count |-> 0,
   field |-> "", pairs |-> <<>>, fields |-> <<>>, keys |-> <<>>]
CallK(op, key) == [NoCall EXCEPT !.op = op, !.key = key]

\* ---------------------------------------------------------------- state
VARIABLES
  db,        \* KVDB.db: key -> Value (Absent when the key is not in the map)
  ttl,       \* KVDB.ttl: key -> Option<u64>
  max_keys,  \* KVDB.max_keys: Option<usize>
  call,      \* the call the caller has just made (NoCall between calls)
  ret,       \* what that call returned
  db0,       \* db as it was when that call started
  ttl0       \* ttl as it was when that call started

vars == <<db, ttl, max_keys, call, ret, db0, ttl0>>

\* KVDB::new(key_size)
Init ==
  /\ db = [k \in Keys |-> Absent]
  /\ ttl = [k \in Keys |-> {}]
  /\ max_keys \in Option(0..MaxCap)
  /\ call = NoCall
  /\ ret = NoRet
  /\ db0 = db
  /\ ttl0 = ttl

\* self.db.len() of a map d
DbLen(d) == Cardinality({k \in Keys : d[k].tag # "Absent"})

\* KVDB::size
size == DbLen(db)

\* can_add_key with the comparison off by one: a full store admits one more key
can_add_key_off_by_one ==
  IF max_keys # {}
  THEN Unwrap(max_keys) > 0 /\ DbLen(db) <= Unwrap(max_keys)
  ELSE TRUE

\* can_add_key that reads a ceiling of 0 as no ceiling
can_add_key_zero_unbounded ==
  IF max_keys # {}
  THEN Unwrap(max_keys) = 0 \/ DbLen(db) < Unwrap(max_keys)
  ELSE TRUE

\* KVDB::can_add_key
can_add_key ==
  IF max_keys # {}
  THEN Unwrap(max_keys) > 0 /\ DbLen(db) < Unwrap(max_keys)
  ELSE TRUE

\* The caller holds the store by &mut and makes one call at a time: it calls a
\* method, looks at the result, and only then makes the next call (as the
\* tests of dbcore/tests/dbcore.rs do).
Idle == call = NoCall

\* A call that returns r and leaves the map and the ledger alone.
Reads(c, r) ==
  /\ call' = c
  /\ ret' = r
  /\ db0' = db
  /\ ttl0' = ttl
  /\ UNCHANGED <<db, ttl, max_keys>>

\* What a call may come to: the value it returns and the map it leaves.
Out(r, d) == [ret |-> r, db |-> d]

\* A call that returns r and leaves the map as d (the ledger alone).
Writes(c, r, d) ==
  /\ call' = c
  /\ ret' = r
  /\ db' = d
  /\ db0' = db
  /\ ttl0' = ttl
  /\ UNCHANGED <<ttl, max_keys>>

\* ---------------------------------------------------------------- strings
\* set that overwrites whatever the key holds, a Set or a Hash included
set_res_any_type(key, not_exists, already_exists) ==
  CASE db[key].tag # "Absent" ->
         IF not_exists THEN DBOkNil
         ELSE IF can_add_key THEN DBOkOk ELSE ErrOutOfKeysSize
    [] db[key].tag = "Absent" ->
         IF already_exists THEN DBOkNil
         ELSE IF can_add_key THEN DBOkOk ELSE ErrOutOfKeysSize

\* set that consults the capacity before the already_exists flag
set_res_capacity_first(key, not_exists, already_exists) ==
  CASE db[key].tag = "StringValue" ->
         IF not_exists THEN DBOkNil
         ELSE IF can_add_key THEN DBOkOk ELSE ErrOutOfKeysSize
    [] db[key].tag \in {"SetValue", "HashValue"} -> ErrWrongValueType
    [] db[key].tag = "Absent" ->
         IF ~can_add_key THEN ErrOutOfKeysSize
         ELSE IF already_exists THEN DBOkNil ELSE DBOkOk

\* set that forgets the not_exists flag on a key that holds a String
set_res_ignores_nx(key, not_exists, already_exists) ==
  CASE db[key].tag = "StringValue" ->
         IF can_add_key THEN DBOkOk ELSE ErrOutOfKeysSize
    [] db[key].tag \in {"SetValue", "HashValue"} -> ErrWrongValueType
    [] db[key].tag = "Absent" ->
         IF already_exists THEN DBOkNil
         ELSE IF can_add_key THEN DBOkOk ELSE ErrOutOfKeysSize

\* set that looks at already_exists before not_exists on a key that holds a
\* String
set_res_already_exists_first(key, not_exists, already_exists) ==
  CASE db[key].tag = "StringValue" ->
         IF already_exists \/ ~not_exists
         THEN (IF can_add_key THEN DBOkOk ELSE ErrOutOfKeysSize)
         ELSE DBOkNil
    [] db[key].tag \in {"SetValue", "HashValue"} -> ErrWrongValueType
    [] db[key].tag = "Absent" ->
         IF already_exists THEN DBOkNil
         ELSE IF can_add_key THEN DBOkOk ELSE ErrOutOfKeysSize

\* KVDB::set, the first match: the value of res
set_res(key, not_exists, already_exists) ==
  CASE db[key].tag = "StringValue" ->
         IF not_exists THEN DBOkNil
         ELSE IF can_add_key THEN DBOkOk ELSE ErrOutOfKeysSize
    [] db[key].tag \in {"SetValue", "HashValue"} -> ErrWrongValueType
    [] db[key].tag = "Absent" ->
         IF already_exists THEN DBOkNil
         ELSE IF can_add_key THEN DBOkOk ELSE ErrOutOfKeysSize

\* set that records the expiry before it looks at res
set_ttl_whatever_res(key, res, expire) ==
  IF expire # {} THEN [ttl EXCEPT ![key] = expire] ELSE ttl

\* KVDB::set, the second match: the ledger after the call
set_ttl(key, res, expire) ==
  IF res = DBOkOk /\ expire # {} THEN [ttl EXCEPT ![key] = expire] ELSE ttl

\* set that inserts only when the key is vacant (entry().or_insert in place of
\* insert): an overwrite reports Ok and keeps the old value
set_db_or_insert(key, value, res) ==
  IF res = DBOkOk /\ db[key].tag = "Absent"
  THEN [db EXCEPT ![key] = StringValue(value)]
  ELSE db

\* KVDB::set, the first match: the map after the call (self.db.insert)
set_db(key, value, res) ==
  IF res = DBOkOk THEN [db EXCEPT ![key] = StringValue(value)] ELSE db

\* KVDB::set
set(key, value, not_exists, already_exists, expire) ==
  LET res == set_res(key, not_exists, already_exists) IN
  /\ db' = set_db(key, value, res)
  /\ ttl' = set_ttl(key, res, expire)
  /\ call' = [NoCall EXCEPT !.op = "set", !.key = key, !.value = value,
                            !.not_exists = not_exists,
                            !.already_exists = already_exists,
                            !.expire = expire]
  /\ ret' = res
  /\ db0' = db
  /\ ttl0' = ttl
  /\ UNCHANGED max_keys

\* get that honours the ledger: a key whose recorded expiry has passed (the
\* clock reads 1) is reported absent
get_res_lazy_expiry(key) ==
  CASE db[key].tag = "StringValue" ->
         IF ttl[key] # {} /\ Unwrap(ttl[key]) <= 1 THEN OkNone ELSE SomeStr(db[key].s)
    [] db[key].tag \in {"SetValue", "HashValue"} -> ErrWrongValueType
    [] db[key].tag = "Absent" -> OkNone

\* KVDB::get
get_res(key) ==
  CASE db[key].tag = "StringValue" -> SomeStr(db[key].s)
    [] db[key].tag \in {"SetValue", "HashValue"} -> ErrWrongValueType
    [] db[key].tag = "Absent" -> OkNone

get(key) == Reads(CallK("get", key), get_res(key))

\* ---------------------------------------------------------------- sets
\* sadd on an existing set that counts every member handed in
sadd_existing_counts_all(v, members, counter) ==
  [m |-> v \cup Range(members), n |-> counter + Len(members)]

\* KVDB::sadd on a key that holds the set v: HashSet::insert of each member in
\* turn, counting the inserts that return true.  [m: the set, n: the counter]
RECURSIVE sadd_existing(_, _, _)
sadd_existing(v, members, counter) ==
  IF members = <<>> THEN [m |-> v, n |-> counter]
  ELSE sadd_existing(v \cup {Head(members)}, Tail(members),
                     IF Head(members) \notin v THEN counter + 1 ELSE counter)

\* KVDB::sadd on an absent key: every member is inserted into a new set and
\* the counter is bumped for each, whatever insert returns.
RECURSIVE sadd_created(_, _, _)
sadd_created(v, members, counter) ==
  IF members = <<>> THEN [m |-> v, n |-> counter]
  ELSE sadd_created(v \cup {Head(members)}, Tail(members), counter + 1)

\* sadd that consults the capacity on a key that holds a Set too, as set does
\* on a key that holds a String
sadd_res_capacity_on_existing(key, members) ==
  CASE db[key].tag = "SetValue" ->
         IF can_add_key THEN ValNum(sadd_existing(db[key].m, members, 0).n)
         ELSE ErrOutOfKeysSize
    [] db[key].tag \in {"StringValue", "HashValue"} -> ErrWrongValueType
    [] db[key].tag = "Absent" ->
         IF can_add_key THEN ValNum(sadd_created({}, members, 0).n)
         ELSE ErrOutOfKeysSize

\* KVDB::sadd: the value returned
sadd_res(key, members) ==
  CASE db[key].tag = "SetValue" -> ValNum(sadd_existing(db[key].m, members, 0).n)
    [] db[key].tag \in {"StringValue", "HashValue"} -> ErrWrongValueType
    [] db[key].tag = "Absent" ->
         IF can_add_key THEN ValNum(sadd_created({}, members, 0).n)
         ELSE ErrOutOfKeysSize

\* sadd that builds and stores the new set before it consults the capacity
sadd_db_insert_first(key, members) ==
  CASE db[key].tag = "SetValue" ->
         [db EXCEPT ![key] = SetValue(sadd_existing(db[key].m, members, 0).m)]
    [] db[key].tag \in {"StringValue", "HashValue"} -> db
    [] db[key].tag = "Absent" ->
         [db EXCEPT ![key] = SetValue(sadd_created({}, members, 0).m)]

\* KVDB::sadd: the map after the call
sadd_db(key, members) ==
  CASE db[key].tag = "SetValue" ->
         [db EXCEPT ![key] = SetValue(sadd_existing(db[key].m, members, 0).m)]
    [] db[key].tag \in {"StringValue", "HashValue"} -> db
    [] db[key].tag = "Absent" ->
         IF can_add_key
         THEN [db EXCEPT ![key] = SetValue(sadd_created({}, members, 0).m)]
         ELSE db

\* KVDB::sadd
sadd(key, members) ==
  Writes([CallK("sadd", key) EXCEPT !.members = members],
         sadd_res(key, members), sadd_db(key, members))

\* KVDB::srandmember.  v.clone().into_iter().take(count) yields the first
\* count members in the HashSet's iteration order, which is unspecified: any
\* subset of min(count, |v|) members may come out.
srandmember_taken(v, count) ==
  {r \in SUBSET v : Cardinality(r) = Min(count, Cardinality(v))}

\* srandmember that samples without removing (the conventional SRANDMEMBER)
srandmember_peek(key, count) ==
  LET c == [CallK("srandmember", key) EXCEPT !.count = count] IN
  CASE db[key].tag = "SetValue" ->
         \E r \in srandmember_taken(db[key].m, count) : Reads(c, SomeSet(r))
    [] db[key].tag \in {"StringValue", "HashValue"} -> Reads(c, ErrWrongValueType)
    [] db[key].tag = "Absent" -> Reads(c, OkNone)

\* KVDB::srandmember: the members taken are returned and removed from the set
srandmember_out(key, count) ==
  CASE db[key].tag = "SetValue" ->
         {Out(SomeSet(r), [db EXCEPT ![key] = SetValue(db[key].m \ r)]) :
            r \in srandmember_taken(db[key].m, count)}
    [] db[key].tag \in {"StringValue", "HashValue"} -> {Out(ErrWrongValueType, db)}
    [] db[key].tag = "Absent" -> {Out(OkNone, db)}

\* KVDB::srandmember
srandmember(key, count) ==
  \E o \in srandmember_out(key, count) :
    Writes([CallK("srandmember", key) EXCEPT !.count = count], o.ret, o.db)

\* spop that removes nothing when the member it picked is the last one
spop_keeps_last(key) ==
  LET c == CallK("spop", key) IN
  CASE db[key].tag = "SetValue" ->
         IF db[key].m = {} THEN Reads(c, OkNone)
         ELSE \E s \in db[key].m :
                Writes(c, SomeStr(s),
                       IF Cardinality(db[key].m) = 1 THEN db
                       ELSE [db EXCEPT ![key] = SetValue(db[key].m \ {s})])
    [] db[key].tag \in {"StringValue", "HashValue"} -> Reads(c, ErrWrongValueType)
    [] db[key].tag = "Absent" -> Reads(c, OkNone)

\* KVDB::spop.  take(1).nth(0) is the first member in iteration order, or None
\* for an empty set.
spop_out(key) ==
  CASE db[key].tag = "SetValue" ->
         IF db[key].m = {} THEN {Out(OkNone, db)}
         ELSE {Out(SomeStr(s), [db EXCEPT ![key] = SetValue(db[key].m \ {s})]) :
                 s \in db[key].m}
    [] db[key].tag \in {"StringValue", "HashValue"} -> {Out(ErrWrongValueType, db)}
    [] db[key].tag = "Absent" -> {Out(OkNone, db)}

\* KVDB::spop
spop(key) == \E o \in spop_out(key) : Writes(CallK("spop", key), o.ret, o.db)

\* KVDB::sismember
sismember_res(key, member) ==
  CASE db[key].tag = "SetValue" -> SomeBool(member \in db[key].m)
    [] db[key].tag \in {"StringValue", "HashValue"} -> ErrWrongValueType
    [] db[key].tag = "Absent" -> OkNone

sismember(key, member) ==
  Reads([CallK("sismember", key) EXCEPT !.value = member], sismember_res(key, member))

\* srem that counts every member handed in, removed or not
srem_existing_counts_all(v, members, counter) ==
  [m |-> v \ Range(members), n |-> counter + Len(members)]

\* KVDB::srem on a key that holds the set v: HashSet::remove of each member in
\* turn, counting the removes that return true.
RECURSIVE srem_existing(_, _, _)
srem_existing(v, members, counter) ==
  IF members = <<>> THEN [m |-> v, n |-> counter]
  ELSE srem_existing(v \ {Head(members)}, Tail(members),
                     IF Head(members) \in v THEN counter + 1 ELSE counter)

\* KVDB::srem: the count returned and the map after the call
srem_out(key, members) ==
  CASE db[key].tag = "SetValue" ->
         LET r == srem_existing(db[key].m, members, 0) IN
         Out(ValNum(r.n), [db EXCEPT ![key] = SetValue(r.m)])
    [] db[key].tag \in {"StringValue", "HashValue"} -> Out(ErrWrongValueType, db)
    [] db[key].tag = "Absent" -> Out(ValNum(0), db)

\* KVDB::srem
srem(key, members) ==
  LET o == srem_out(key, members) IN
  Writes([CallK("srem", key) EXCEPT !.members = members], o.ret, o.db)

\* slen that answers an absent key with KeyNotFound, as hmget does
slen_res_key_not_found(key) ==
  CASE db[key].tag = "SetValue" -> SomeNum(Cardinality(db[key].m))
    [] db[key].tag \in {"StringValue", "HashValue"} -> ErrWrongValueType
    [] db[key].tag = "Absent" -> ErrKeyNotFound

\* KVDB::slen
slen_res(key) ==
  CASE db[key].tag = "SetValue" -> SomeNum(Cardinality(db[key].m))
    [] db[key].tag \in {"StringValue", "HashValue"} -> ErrWrongValueType
    [] db[key].tag = "Absent" -> OkNone

slen(key) == Reads(CallK("slen", key), slen_res(key))

\* KVDB::smembers
smembers_res(key) ==
  CASE db[key].tag = "SetValue" -> SomeSet(db[key].m)
    [] db[key].tag \in {"StringValue", "HashValue"} -> ErrWrongValueType
    [] db[key].tag = "Absent" -> OkNone

\* smembers that hands the members out and leaves the set empty (mem::take in
\* place of clone)
smembers_drains(key) ==
  Writes(CallK("smembers", key), smembers_res(key),
         IF db[key].tag = "SetValue" THEN [db EXCEPT ![key] = SetValue({})] ELSE db)

smembers(key) == Reads(CallK("smembers", key), smembers_res(key))

\* ---------------------------------------------------------------- hashes
\* HashMap::insert(field, value) on the hash h
HashInsert(h, field, value) == [h EXCEPT ![field] = {value}]

\* hset that reports 1 whether or not the field was there
hset_res_always_one(key, field) ==
  CASE db[key].tag = "HashValue" -> ValNum(1)
    [] db[key].tag \in {"StringValue", "SetValue"} -> ErrWrongValueType
    [] db[key].tag = "Absent" ->
         IF can_add_key THEN ValNum(1) ELSE ErrOutOfKeysSize

\* KVDB::hset: the value returned
hset_res(key, field) ==
  CASE db[key].tag = "HashValue" ->
         IF db[key].h[field] # {} THEN ValNum(0) ELSE ValNum(1)
    [] db[key].tag \in {"StringValue", "SetValue"} -> ErrWrongValueType
    [] db[key].tag = "Absent" ->
         IF can_add_key THEN ValNum(1) ELSE ErrOutOfKeysSize

\* hset that turns whatever the key holds into a hash with the one field
hset_db_coerces(key, field, value) ==
  CASE db[key].tag = "HashValue" ->
         [db EXCEPT ![key] = HashValue(HashInsert(db[key].h, field, value))]
    [] db[key].tag \in {"StringValue", "SetValue"} ->
         [db EXCEPT ![key] = HashValue(HashInsert(EmptyHash, field, value))]
    [] db[key].tag = "Absent" ->
         IF can_add_key
         THEN [db EXCEPT ![key] = HashValue(HashInsert(EmptyHash, field, value))]
         ELSE db

\* KVDB::hset: the map after the call
hset_db(key, field, value) ==
  CASE db[key].tag = "HashValue" ->
         [db EXCEPT ![key] = HashValue(HashInsert(db[key].h, field, value))]
    [] db[key].tag \in {"StringValue", "SetValue"} -> db
    [] db[key].tag = "Absent" ->
         IF can_add_key
         THEN [db EXCEPT ![key] = HashValue(HashInsert(EmptyHash, field, value))]
         ELSE db

\* KVDB::hset
hset(key, field, value) ==
  Writes([CallK("hset", key) EXCEPT !.field = field, !.value = value],
         hset_res(key, field), hset_db(key, field, value))

\* KVDB::hget
hget_res(key, field) ==
  CASE db[key].tag = "HashValue" ->
         IF db[key].h[field] # {} THEN SomeStr(Unwrap(db[key].h[field])) ELSE OkNone
    [] db[key].tag \in {"StringValue", "SetValue"} -> ErrWrongValueType
    [] db[key].tag = "Absent" -> OkNone

hget(key, field) ==
  Reads([CallK("hget", key) EXCEPT !.field = field], hget_res(key, field))

\* hmset that inserts the pairs back to front, so that the first value given
\* for a field wins
RECURSIVE hmset_fold_reversed(_, _)
hmset_fold_reversed(h, pairs) ==
  IF pairs = <<>> THEN h
  ELSE HashInsert(hmset_fold_reversed(h, Tail(pairs)), Head(pairs)[1], Head(pairs)[2])

\* KVDB::hmset: HashMap::insert of each pair <<field, value>> in turn
RECURSIVE hmset_fold(_, _)
hmset_fold(h, pairs) ==
  IF pairs = <<>> THEN h
  ELSE hmset_fold(HashInsert(h, Head(pairs)[1], Head(pairs)[2]), Tail(pairs))

\* hmset that creates the key without consulting the capacity
hmset_res_unchecked(key) ==
  CASE db[key].tag = "HashValue" -> DBOkOk
    [] db[key].tag \in {"StringValue", "SetValue"} -> ErrWrongValueType
    [] db[key].tag = "Absent" -> DBOkOk

\* KVDB::hmset: the value returned
hmset_res(key) ==
  CASE db[key].tag = "HashValue" -> DBOkOk
    [] db[key].tag \in {"StringValue", "SetValue"} -> ErrWrongValueType
    [] db[key].tag = "Absent" -> IF can_add_key THEN DBOkOk ELSE ErrOutOfKeysSize

\* hmset that inserts on the strength of a capacity check made earlier, without
\* looking at the map as it is now
hmset_db_stale_check(key, pairs) ==
  CASE db[key].tag = "HashValue" ->
         [db EXCEPT ![key] = HashValue(hmset_fold(db[key].h, pairs))]
    [] db[key].tag \in {"StringValue", "SetValue"} -> db
    [] db[key].tag = "Absent" ->
         [db EXCEPT ![key] = HashValue(hmset_fold(EmptyHash, pairs))]

\* KVDB::hmset: the map after the call
hmset_db(key, pairs) ==
  CASE db[key].tag = "HashValue" ->
         [db EXCEPT ![key] = HashValue(hmset_fold(db[key].h, pairs))]
    [] db[key].tag \in {"StringValue", "SetValue"} -> db
    [] db[key].tag = "Absent" ->
         IF can_add_key
         THEN [db EXCEPT ![key] = HashValue(hmset_fold(EmptyHash, pairs))]
         ELSE db

\* KVDB::hmset
hmset(key, pairs) ==
  Writes([CallK("hmset", key) EXCEPT !.pairs = pairs],
         hmset_res(key), hmset_db(key, pairs))

\* hmget that answers an absent key as hget does, with nothing found, instead of
\* KeyNotFound
hmget_res_absent_as_none(key, fields) ==
  CASE db[key].tag = "HashValue" ->
         ValVec([i \in 1..Len(fields) |-> db[key].h[fields[i]]])
    [] db[key].tag \in {"StringValue", "SetValue"} -> ErrWrongValueType
    [] db[key].tag = "Absent" -> ValVec([i \in 1..Len(fields) |-> {}])

\* KVDB::hmget: one Option<String> for each requested field, in order
hmget_res(key, fields) ==
  CASE db[key].tag = "HashValue" ->
         ValVec([i \in 1..Len(fields) |-> db[key].h[fields[i]]])
    [] db[key].tag \in {"StringValue", "SetValue"} -> ErrWrongValueType
    [] db[key].tag = "Absent" -> ErrKeyNotFound

hmget(key, fields) ==
  Reads([CallK("hmget", key) EXCEPT !.fields = fields], hmget_res(key, fields))

\* The orders in which a HashMap with the fields S may iterate: unspecified,
\* so every arrangement of S.
IterOrders(S) ==
  {q \in [1..Cardinality(S) -> S] : \A i, j \in 1..Cardinality(S) : q[i] = q[j] => i = j}

HashFields(h) == {f \in Fields : h[f] # {}}

\* KVDB::hkeys: the fields in one of the orders the hash may iterate in
hkeys_res(key) ==
  CASE db[key].tag = "HashValue" ->
         {SomeVec(q) : q \in IterOrders(HashFields(db[key].h))}
    [] db[key].tag \in {"StringValue", "SetValue"} -> {ErrWrongValueType}
    [] db[key].tag = "Absent" -> {OkNone}

\* KVDB::hkeys
hkeys(key) == \E r \in hkeys_res(key) : Reads(CallK("hkeys", key), r)

\* KVDB::hvalues: the values in one of the orders the hash may iterate in
hvalues_res(key) ==
  CASE db[key].tag = "HashValue" ->
         {SomeVec([i \in 1..Len(q) |-> Unwrap(db[key].h[q[i]])]) :
            q \in IterOrders(HashFields(db[key].h))}
    [] db[key].tag \in {"StringValue", "SetValue"} -> {ErrWrongValueType}
    [] db[key].tag = "Absent" -> {OkNone}

\* KVDB::hvalues
hvalues(key) == \E r \in hvalues_res(key) : Reads(CallK("hvalues", key), r)

\* KVDB::hexists
hexists_res(key, field) ==
  CASE db[key].tag = "HashValue" -> SomeBool(db[key].h[field] # {})
    [] db[key].tag \in {"StringValue", "SetValue"} -> ErrWrongValueType
    [] db[key].tag = "Absent" -> OkNone

hexists(key, field) ==
  Reads([CallK("hexists", key) EXCEPT !.field = field], hexists_res(key, field))

\* KVDB::hlen
hlen_res(key) ==
  CASE db[key].tag = "HashValue" -> SomeNum(HashLen(db[key].h))
    [] db[key].tag \in {"StringValue", "SetValue"} -> ErrWrongValueType
    [] db[key].tag = "Absent" -> OkNone

hlen(key) == Reads(CallK("hlen", key), hlen_res(key))

\* hdel that reports Some(1) for a hash that does not have the field
hdel_reports_one(key, field) ==
  LET c == [CallK("hdel", key) EXCEPT !.field = field] IN
  CASE db[key].tag = "HashValue" ->
         Writes(c, SomeNum(1),
                [db EXCEPT ![key] = HashValue([db[key].h EXCEPT ![field] = {}])])
    [] db[key].tag \in {"StringValue", "SetValue"} -> Reads(c, ErrWrongValueType)
    [] db[key].tag = "Absent" -> Reads(c, OkNone)

\* hdel that removes the key along with the last field of its hash
hdel_drops_empty(key, field) ==
  LET c == [CallK("hdel", key) EXCEPT !.field = field] IN
  CASE db[key].tag = "HashValue" ->
         IF db[key].h[field] # {}
         THEN Writes(c, SomeNum(1),
                     IF HashLen(db[key].h) = 1 THEN [db EXCEPT ![key] = Absent]
                     ELSE [db EXCEPT ![key] = HashValue([db[key].h EXCEPT ![field] = {}])])
         ELSE Reads(c, SomeNum(0))
    [] db[key].tag \in {"StringValue", "SetValue"} -> Reads(c, ErrWrongValueType)
    [] db[key].tag = "Absent" -> Reads(c, OkNone)

\* KVDB::hdel: the count returned and the map after the call
hdel_out(key, field) ==
  CASE db[key].tag = "HashValue" ->
         IF db[key].h[field] # {}
         THEN Out(SomeNum(1),
                  [db EXCEPT ![key] = HashValue([db[key].h EXCEPT ![field] = {}])])
         ELSE Out(SomeNum(0), db)
    [] db[key].tag \in {"StringValue", "SetValue"} -> Out(ErrWrongValueType, db)
    [] db[key].tag = "Absent" -> Out(OkNone, db)

\* KVDB::hdel
hdel(key, field) ==
  LET o == hdel_out(key, field) IN
  Writes([CallK("hdel", key) EXCEPT !.field = field], o.ret, o.db)

\* ---------------------------------------------------------------- housekeeping
\* del that counts every key handed in, present or not
del_fold_counts_all(d, keys, counter) ==
  [d |-> [k \in Keys |-> IF k \in Range(keys) THEN Absent ELSE d[k]],
   n |-> counter + Len(keys)]

\* KVDB::del: HashMap::remove of each key in turn, counting the removes that
\* find an entry.  [d: the map, n: the counter]
RECURSIVE del_fold(_, _, _)
del_fold(d, keys, counter) ==
  IF keys = <<>> THEN [d |-> d, n |-> counter]
  ELSE del_fold([d EXCEPT ![Head(keys)] = Absent], Tail(keys),
                IF d[Head(keys)].tag # "Absent" THEN counter + 1 ELSE counter)

\* del that drops the ledger entries of the keys it is handed along with the keys
del_forgets_expiry(keys) ==
  LET r == del_fold(db, keys, 0) IN
  /\ call' = [NoCall EXCEPT !.op = "del", !.keys = keys]
  /\ ret' = ValNum(r.n)
  /\ db' = r.d
  /\ ttl' = [k \in Keys |-> IF k \in Range(keys) THEN {} ELSE ttl[k]]
  /\ db0' = db
  /\ ttl0' = ttl
  /\ UNCHANGED max_keys

\* KVDB::del
del(keys) ==
  LET r == del_fold(db, keys, 0) IN
  Writes([NoCall EXCEPT !.op = "del", !.keys = keys], ValNum(r.n), r.d)

\* KVDB::exists
exists_res(key) == ValBool(db[key].tag # "Absent")

exists(key) == Reads(CallK("exists", key), exists_res(key))

\* size() and can_add_key() as calls
size_call == Reads([NoCall EXCEPT !.op = "size"], ValNum(size))
can_add_key_call == Reads([NoCall EXCEPT !.op = "can_add_key"], ValBool(can_add_key))

\* ---------------------------------------------------------------- the caller
Pairs == Fields \X Strs
MemberLists == SeqsUpTo(Strs, MaxLen)
PairLists == SeqsUpTo(Pairs, MaxLen)
FieldLists == SeqsUpTo(Fields, MaxLen)
KeyLists == SeqsUpTo(Keys, MaxLen)
Counts == 0..MaxLen
Expire == Option(Expires)

DoSet ==
  /\ Idle
  /\ \E key \in Keys, value \in Strs, not_exists \in BOOLEAN,
        already_exists \in BOOLEAN, expire \in Expire :
       set(key, value, not_exists, already_exists, expire)
DoGet == Idle /\ \E key \in Keys : get(key)
DoSadd == Idle /\ \E key \in Keys, members \in MemberLists : sadd(key, members)
DoSrandmember == Idle /\ \E key \in Keys, count \in Counts : srandmember(key, count)
DoSpop == Idle /\ \E key \in Keys : spop(key)
DoSismember == Idle /\ \E key \in Keys, member \in Strs : sismember(key, member)
DoSrem == Idle /\ \E key \in Keys, members \in MemberLists : srem(key, members)
DoSlen == Idle /\ \E key \in Keys : slen(key)
DoSmembers == Idle /\ \E key \in Keys : smembers(key)
DoHset == Idle /\ \E key \in Keys, field \in Fields, value \in Strs : hset(key, field, value)
DoHget == Idle /\ \E key \in Keys, field \in Fields : hget(key, field)
DoHmset == Idle /\ \E key \in Keys, pairs \in PairLists : hmset(key, pairs)
DoHmget == Idle /\ \E key \in Keys, fields \in FieldLists : hmget(key, fields)
DoHkeys == Idle /\ \E key \in Keys : hkeys(key)
DoHvalues == Idle /\ \E key \in Keys : hvalues(key)
DoHexists == Idle /\ \E key \in Keys, field \in Fields : hexists(key, field)
DoHlen == Idle /\ \E key \in Keys : hlen(key)
DoHdel == Idle /\ \E key \in Keys, field \in Fields : hdel(key, field)
DoDel == Idle /\ \E keys \in KeyLists : del(keys)
DoExists == Idle /\ \E key \in Keys : exists(key)
DoSize == Idle /\ size_call
DoCanAddKey == Idle /\ can_add_key_call

\* The caller is done with the result of its call and turns to the next one.
Resume ==
  /\ ~Idle
  /\ call' = NoCall
  /\ ret' = NoRet
  /\ db0' = db
  /\ ttl0' = ttl
  /\ UNCHANGED <<db, ttl, max_keys>>

Next ==
  \/ DoSet
  \/ DoGet
  \/ DoSadd
  \/ DoSrandmember
  \/ DoSpop
  \/ DoSismember
  \/ DoSrem
  \/ DoSlen
  \/ DoSmembers
  \/ DoHset
  \/ DoHget
  \/ DoHmset
  \/ DoHmget
  \/ DoHkeys
  \/ DoHvalues
  \/ DoHexists
  \/ DoHlen
  \/ DoHdel
  \/ DoDel
  \/ DoExists
  \/ DoSize
  \/ DoCanAddKey
  \/ Resume

Spec == Init /\ [][Next]_vars

\* ---------------------------------------------------------------- two stores
\* To compare two stores that have the same map and capacity and different
\* ledgers, the caller turns from the store it holds to such a twin: one whose
\* ledger differs in the entry of one key (and, turn after turn, in any number
\* of entries).  Every ledger over the keys is the ledger of some store with a
\* given map, unless the capacity is Some(0): set(k, v, .., Some(e)) records e
\* for k, del(k) leaves the entry behind, and the map can then be built
\* without an expire.  So Twin reaches no store that Next does not reach.
Twin ==
  /\ Idle
  /\ max_keys # {0}
  /\ \E k \in Keys : \E e \in Expire \ {ttl[k]} : ttl' = [ttl EXCEPT ![k] = e]
  /\ call' = [NoCall EXCEPT !.op = "twin"]
  /\ ret' = NoRet
  /\ db0' = db
  /\ ttl0' = ttl
  /\ UNCHANGED <<db, max_keys>>

NextTwin == Next \/ Twin

SpecTwin == Init /\ [][NextTwin]_vars

\* ---------------------------------------------------------------- properties
\* In a state with call # NoCall, call is the call that has just returned, ret
\* its result, db0 and ttl0 the store it started from, db and ttl the store it
\* left.

\* The store was built with a ceiling and held that many keys when the call started.
Full0 == max_keys # {} /\ DbLen(db0) = Unwrap(max_keys)
\* The call left the map and the ledger as they were.
Untouched == db = db0 /\ ttl = ttl0
\* The operations of each type, and the variant each works on.
StringOps == {"set", "get"}
SetOps == {"sadd", "srandmember", "spop", "sismember", "srem", "slen", "smembers"}
HashOps == {"hset", "hget", "hmset", "hmget", "hkeys", "hvalues", "hlen", "hexists", "hdel"}
OpVariant(op) ==
  IF op \in StringOps THEN "StringValue"
  ELSE IF op \in SetOps THEN "SetValue" ELSE "HashValue"
\* The call is one that creates its key when the key is absent.
Creates ==
  \/ call.op \in {"sadd", "hset", "hmset"}
  \/ call.op = "set" /\ ~call.already_exists

\* C1: a store built with capacity Some(n) never holds more than n keys,
\* whatever calls are made on it.
C1_CapacityCeiling == max_keys # {} => size <= Unwrap(max_keys)

\* C1 witness: a bounded store that is full and has just turned a new key away.
C1_Witness ==
  /\ max_keys = {1}
  /\ size = 1
  /\ call.op = "hset"
  /\ ret = ErrOutOfKeysSize

\* C2: set without not_exists on a key that holds a String returns Ok and
\* stores the value, also when the store holds as many keys as its capacity.
C2_OverwriteNeedsNoCapacity ==
  (call.op = "set" /\ db0[call.key].tag = "StringValue" /\ ~call.not_exists)
    => (ret = DBOkOk /\ db[call.key] = StringValue(call.value))

\* C3: on a store that holds exactly capacity keys, every call that would
\* create a key (set without already_exists, sadd, hset, hmset on an absent
\* key) returns OutOfKeysSize.
C3_FullStoreRejectsCreation ==
  (Full0 /\ Creates /\ db0[call.key].tag = "Absent") => ret = ErrOutOfKeysSize

\* C3 witness: hmset of one pair on an absent key of a full store of capacity 1.
C3_Witness ==
  /\ max_keys = {1}
  /\ DbLen(db0) = 1
  /\ call.op = "hmset"
  /\ Len(call.pairs) = 1
  /\ db0[call.key].tag = "Absent"

\* C4: when set, sadd, hset or hmset returns OutOfKeysSize, the map and the
\* ledger are what they were before the call.
C4_RejectionIsNoOp ==
  (call.op \in {"set", "sadd", "hset", "hmset"} /\ ret = ErrOutOfKeysSize)
    => Untouched

\* C4 witness: sadd of two members turned away by a full store.
C4_Witness ==
  /\ call.op = "sadd"
  /\ Len(call.members) = 2
  /\ ret = ErrOutOfKeysSize
  /\ DbLen(db0) = 1

C6_Original ==
  call.op = "set" /\ call.not_exists =>
    /\ (db0[call.key].tag = "Absent" /\ ~call.already_exists)
         => (ret = DBOkOk /\ db[call.key] = StringValue(call.value))
    /\ db0[call.key].tag = "StringValue" => (ret = DBOkNil /\ Untouched)

\* C6 amended: set with not_exists, without already_exists, on an absent key of
\* a store that holds fewer keys than its capacity returns Ok and stores the
\* value; set with not_exists on a key that holds a String returns Nil and
\* leaves the map and the ledger unchanged, so get still returns the old value.
C6_ConditionalSet ==
  call.op = "set" /\ call.not_exists =>
    /\ (/\ db0[call.key].tag = "Absent"
        /\ ~call.already_exists
        /\ (max_keys = {} \/ DbLen(db0) < Unwrap(max_keys)))
         => (ret = DBOkOk /\ db[call.key] = StringValue(call.value))
    /\ db0[call.key].tag = "StringValue"
         => (ret = DBOkNil /\ Untouched /\ get_res(call.key) = SomeStr(db0[call.key].s))

\* C6 witness: set with not_exists and another value, and an expiry, on a key
\* that holds a String.
C6_Witness ==
  /\ call.op = "set"
  /\ call.not_exists
  /\ call.expire # {}
  /\ db0[call.key].tag = "StringValue"
  /\ db0[call.key].s # call.value

\* C7: set with already_exists on an absent key returns Nil and changes
\* nothing, on a full store too (Nil, not OutOfKeysSize).
C7_AlreadyExistsOnAbsent ==
  (call.op = "set" /\ call.already_exists /\ db0[call.key].tag = "Absent")
    => (ret = DBOkNil /\ Untouched)

\* C7 witness: that call, with an expiry, on a full store of capacity 1.
C7_Witness ==
  /\ call.op = "set"
  /\ call.already_exists
  /\ ~call.not_exists
  /\ call.expire # {}
  /\ db0[call.key].tag = "Absent"
  /\ max_keys = {1}
  /\ DbLen(db0) = 1

\* C8: in an unbounded store, set(k, v, false, false, None) on a key that is
\* absent or holds a String returns Ok, get(k) then returns v, and no other key
\* changes; a String stays as the last Ok set on its key left it, since only an
\* Ok set on k makes k a String or changes the String k holds.
C8_GetReturnsLastSet ==
  max_keys = {} =>
    /\ (/\ call.op = "set"
        /\ ~call.not_exists /\ ~call.already_exists /\ call.expire = {}
        /\ db0[call.key].tag \in {"Absent", "StringValue"})
         => /\ ret = DBOkOk
            /\ get_res(call.key) = SomeStr(call.value)
            /\ \A k \in Keys \ {call.key} : db[k] = db0[k]
    /\ \A k \in Keys :
         (db[k].tag = "StringValue" /\ db[k] # db0[k])
           => (call.op = "set" /\ call.key = k /\ ret = DBOkOk /\ db[k].s = call.value)

\* C8 witness: an unconditional set that replaces a String by another while the
\* other key holds a value.
C8_Witness ==
  /\ max_keys = {}
  /\ call.op = "set"
  /\ ~call.not_exists /\ ~call.already_exists /\ call.expire = {}
  /\ db0[call.key].tag = "StringValue"
  /\ db0[call.key].s # call.value
  /\ \E k \in Keys \ {call.key} : db[k].tag = "StringValue"

\* C9: the count sadd returns is the size of the set after the call minus its
\* size before (0 for an absent key), for every member list.
C9_SaddCountsNewMembers ==
  (call.op = "sadd" /\ ret.tag = "Val")
    => ret.n = Cardinality(db[call.key].m) - Cardinality(db0[call.key].m)

\* C10: sadd of members that are all in the set already returns 0 and changes
\* nothing.
C10_SaddIdempotent ==
  (/\ call.op = "sadd"
   /\ db0[call.key].tag = "SetValue"
   /\ Range(call.members) \subseteq db0[call.key].m)
    => (ret = ValNum(0) /\ Untouched /\ smembers_res(call.key) = SomeSet(db0[call.key].m))

\* C10 witness: sadd of two members to a set that holds both.
C10_Witness ==
  /\ call.op = "sadd"
  /\ db0[call.key].tag = "SetValue"
  /\ Len(call.members) = 2
  /\ Cardinality(Range(call.members)) = 2
  /\ Range(call.members) \subseteq db0[call.key].m

\* The store could admit a new key when the call started: it has no ceiling or
\* held fewer keys than its ceiling.
Room0 == max_keys = {} \/ DbLen(db0) < Unwrap(max_keys)
\* Every key but the one the call names is as it was.
OthersUntouched == \A k \in Keys \ {call.key} : db[k] = db0[k]

\* C11: sadd, hset and hmset on a key that already holds the matching variant
\* succeed, on a store at capacity too: they never return OutOfKeysSize (nor
\* any other error) and the number of keys stays what it was.
C11_InPlaceNeedsNoCapacity ==
  (/\ call.op \in {"sadd", "hset", "hmset"}
   /\ db0[call.key].tag = OpVariant(call.op))
    => (/\ ret.tag = (IF call.op = "hmset" THEN "Ok" ELSE "Val")
        /\ db[call.key].tag = OpVariant(call.op)
        /\ size = DbLen(db0))

\* C11 witness: on a full store of capacity 1, sadd adds a member to the set
\* the store holds.
C11_Witness ==
  /\ max_keys = {1}
  /\ DbLen(db0) = 1
  /\ call.op = "sadd"
  /\ db0[call.key].tag = "SetValue"
  /\ ret = ValNum(1)
  /\ db[call.key].m # db0[call.key].m

C13_SrandmemberNone ==
  (/\ call.op = "srandmember"
   /\ \/ db0[call.key].tag = "Absent"
      \/ db0[call.key].tag = "SetValue" /\ db0[call.key].m = {})
    => ret = OkNone

\* C14: spop on a key that holds a non-empty set S returns Some(m) with m in S
\* and leaves S minus {m}; on a key that holds an empty set, or on an absent
\* key, it returns None and changes nothing.
C14_Spop ==
  call.op = "spop" =>
    /\ (db0[call.key].tag = "SetValue" /\ db0[call.key].m # {}) =>
         /\ ret.tag = "Some"
         /\ ret.s \in db0[call.key].m
         /\ db[call.key] = SetValue(db0[call.key].m \ {ret.s})
         /\ Cardinality(db[call.key].m) = Cardinality(db0[call.key].m) - 1
         /\ OthersUntouched
         /\ ttl = ttl0
    /\ (\/ db0[call.key].tag = "Absent"
        \/ db0[call.key].tag = "SetValue" /\ db0[call.key].m = {})
         => (ret = OkNone /\ Untouched)

\* C14 witness: spop takes the only member of a set and leaves the empty set.
C14_Witness ==
  /\ call.op = "spop"
  /\ db0[call.key].tag = "SetValue"
  /\ Cardinality(db0[call.key].m) = 1
  /\ ret.tag = "Some"
  /\ db[call.key] = SetValue({})

\* C15: srem on a key that holds the set S returns the number of distinct
\* listed members that were in S and leaves S minus the listed members; on an
\* absent key it returns 0 and does not create the key.
C15_Srem ==
  call.op = "srem" =>
    /\ db0[call.key].tag = "SetValue" =>
         /\ ret = ValNum(Cardinality(db0[call.key].m \cap Range(call.members)))
         /\ db[call.key] = SetValue(db0[call.key].m \ Range(call.members))
         /\ OthersUntouched
    /\ db0[call.key].tag = "Absent" => (ret = ValNum(0) /\ Untouched)

\* C15 witness: srem names the same member twice, and the member is in the set.
C15_Witness ==
  /\ call.op = "srem"
  /\ db0[call.key].tag = "SetValue"
  /\ Len(call.members) = 2
  /\ call.members[1] = call.members[2]
  /\ call.members[1] \in db0[call.key].m
  /\ ret = ValNum(1)

\* C16: hset(k, f, v) returns 1 when f was not in the hash (also when k was
\* absent and is created, with just this field) and 0 when f was overwritten;
\* either way hget(k, f) then returns v and every other field of k is as it was.
C16_Hset ==
  call.op = "hset" =>
    /\ db0[call.key].tag = "HashValue" =>
         /\ ret = ValNum(IF db0[call.key].h[call.field] = {} THEN 1 ELSE 0)
         /\ hget_res(call.key, call.field) = SomeStr(call.value)
         /\ \A f \in Fields \ {call.field} : db[call.key].h[f] = db0[call.key].h[f]
    /\ (db0[call.key].tag = "Absent" /\ Room0) =>
         /\ ret = ValNum(1)
         /\ hget_res(call.key, call.field) = SomeStr(call.value)
         /\ HashFields(db[call.key].h) = {call.field}
    /\ (db0[call.key].tag = "Absent" /\ db[call.key].tag # "Absent") => ret = ValNum(1)

\* C16 witness: hset overwrites a field with another value in a hash that has a
\* second field.
C16_Witness ==
  /\ call.op = "hset"
  /\ db0[call.key].tag = "HashValue"
  /\ db0[call.key].h[call.field] \notin {{}, {call.value}}
  /\ HashLen(db0[call.key].h) = 2
  /\ ret = ValNum(0)

\* C17: hmset on an absent key of a store with room, or on a key that holds a
\* Hash, returns Ok; then hget of each field named in pairs returns the value of
\* the last pair with that field, the other fields are as they were, and hlen
\* is the number of distinct fields of the hash.
C17_Hmset ==
  (/\ call.op = "hmset"
   /\ \/ db0[call.key].tag = "HashValue"
      \/ db0[call.key].tag = "Absent" /\ Room0) =>
    LET named == {call.pairs[i][1] : i \in 1..Len(call.pairs)}
        last(f) == CHOOSE i \in 1..Len(call.pairs) :
                     /\ call.pairs[i][1] = f
                     /\ \A j \in (i + 1)..Len(call.pairs) : call.pairs[j][1] # f
    IN /\ ret = DBOkOk
       /\ db[call.key].tag = "HashValue"
       /\ \A f \in named : hget_res(call.key, f) = SomeStr(call.pairs[last(f)][2])
       /\ \A f \in Fields \ named : db[call.key].h[f] = db0[call.key].h[f]
       /\ hlen_res(call.key) = SomeNum(Cardinality(named \cup HashFields(db0[call.key].h)))
       /\ OthersUntouched

\* C17 witness: hmset gives two values for one field, on a hash that holds the
\* other field.
C17_Witness ==
  /\ call.op = "hmset"
  /\ db0[call.key].tag = "HashValue"
  /\ Len(call.pairs) = 2
  /\ call.pairs[1][1] = call.pairs[2][1]
  /\ call.pairs[1][2] # call.pairs[2][2]
  /\ HashFields(db0[call.key].h) = Fields \ {call.pairs[1][1]}
  /\ ret = DBOkOk

\* C18: hmget on a key that holds a Hash returns one slot for each requested
\* field, in order: Some(value) where hget finds the field, None where it does
\* not; on an absent key it returns KeyNotFound, where hget returns None.
C18_Hmget ==
  call.op = "hmget" =>
    /\ db0[call.key].tag = "HashValue" =>
         /\ ret.tag = "Val"
         /\ Len(ret.l) = Len(call.fields)
         /\ \A i \in 1..Len(call.fields) :
              hget_res(call.key, call.fields[i]) =
                (IF ret.l[i] = {} THEN OkNone ELSE SomeStr(Unwrap(ret.l[i])))
    /\ db0[call.key].tag = "Absent" =>
         /\ ret = ErrKeyNotFound
         /\ \A f \in Fields : hget_res(call.key, f) = OkNone
    /\ Untouched

\* C18 witness: hmget of a field the hash has and one it has not.
C18_Witness ==
  /\ call.op = "hmget"
  /\ db0[call.key].tag = "HashValue"
  /\ Len(call.fields) = 2
  /\ ret.tag = "Val"
  /\ ret.l[1] # {}
  /\ ret.l[2] = {}

C20_Del ==
  call.op = "del" =>
    LET listed == Range(call.keys) IN
    /\ ret = ValNum(Cardinality({k \in listed : db0[k].tag # "Absent"}))
    /\ size = DbLen(db0) - ret.n
    /\ \A k \in listed : db[k].tag = "Absent"
    /\ \A k \in Keys \ listed : db[k] = db0[k]
    /\ del_fold(db, call.keys, 0) = [d |-> db, n |-> 0]

\* C20 witness: del names a key twice; the key was present, and the other key
\* stays.
C20_Witness ==
  /\ call.op = "del"
  /\ Len(call.keys) = 2
  /\ call.keys[1] = call.keys[2]
  /\ db0[call.keys[1]].tag = "HashValue"
  /\ ret = ValNum(1)
  /\ size = 1

C22_SetRecordsExpiry ==
  call.op = "set" =>
    /\ (ret = DBOkOk /\ call.expire # {}) => ttl = [ttl0 EXCEPT ![call.key] = call.expire]
    /\ ret # DBOkOk => ttl = ttl0

\* C22 witness: an Ok set with an expiry on a key whose ledger entry held
\* another expiry.
C22_Witness ==
  /\ call.op = "set"
  /\ ret = DBOkOk
  /\ call.expire # {}
  /\ ttl0[call.key] \notin {{}, call.expire}
  /\ ttl[call.key] = call.expire

C24_CanAddKey ==
  /\ can_add_key <=> (max_keys = {} \/ size < Unwrap(max_keys))
  /\ call.op = "can_add_key" =>
       ret = ValBool(max_keys = {} \/ DbLen(db0) < Unwrap(max_keys))
  /\ max_keys = {0} =>
       /\ size = 0
       /\ Creates => ret = ErrOutOfKeysSize

\* C24 witness: a store built with capacity Some(0) has just turned a set away.
C24_Witness ==
  /\ max_keys = {0}
  /\ call.op = "set"
  /\ ~call.already_exists
  /\ ret = ErrOutOfKeysSize
  /\ size = 0

\* C26: only a set that returns Ok with an expire supplied changes the ledger.
\* Every other call leaves it as it was, del of a key that has an entry and an
\* Ok set without expire on a key that has one included; so no call removes an
\* entry, and an entry can outlive its key.
C26_LedgerFrame ==
  /\ ttl # ttl0 => (call.op = "set" /\ ret = DBOkOk /\ call.expire # {})
  /\ \A k \in Keys : ttl0[k] # {} => ttl[k] # {}

\* C26 witness: del has removed a key that has a ledger entry; the entry is
\* still there.
C26_Witness ==
  /\ call.op = "del"
  /\ \E k \in Range(call.keys) :
       /\ db0[k].tag = "StringValue"
       /\ db[k].tag = "Absent"
       /\ ttl0[k] # {}
       /\ ttl[k] = ttl0[k]

\* The calls that only read.
ReadOps ==
  {"get", "sismember", "slen", "smembers", "hget", "hmget", "hkeys", "hvalues",
   "hlen", "hexists", "exists", "size", "can_add_key"}

\* C27: the calls that only read (get, sismember, slen, smembers, hget, hmget,
\* hkeys, hvalues, hlen, hexists, exists, size, can_add_key) leave the map, the
\* ledger and the capacity as they were, whether they return a value, None or
\* an error.
C27_ReadsChangeNothing ==
  [][call'.op \in ReadOps => (db' = db /\ ttl' = ttl /\ max_keys' = max_keys)]_vars

\* C27 witness: smembers has returned the two members of a set, which still
\* has them.
C27_Witness ==
  /\ call.op = "smembers"
  /\ ret = SomeSet(Strs)
  /\ db[call.key] = SetValue(Strs)

\* C28: only del reduces the number of keys: every other call leaves size() as
\* it was or raises it by exactly one.  A Set emptied by srem, spop or
\* srandmember and a Hash emptied by hdel stay in the store as empty containers
\* (the key exists, slen or hlen is Some(0)) and count against the capacity:
\* a store that is full with them admits no new key.
C28_OnlyDelShrinks ==
  /\ call.op \notin {"none", "del"} => size \in {DbLen(db0), DbLen(db0) + 1}
  /\ (call.op \in {"srem", "spop", "srandmember"} /\ db0[call.key].tag = "SetValue")
       => (db[call.key].tag = "SetValue" /\ slen_res(call.key).tag = "Some")
  /\ (call.op = "hdel" /\ db0[call.key].tag = "HashValue")
       => (db[call.key].tag = "HashValue" /\ hlen_res(call.key).tag = "Some")
  /\ \A k \in Keys :
       /\ db[k] = SetValue({}) => slen_res(k) = SomeNum(0)
       /\ db[k] = HashValue(EmptyHash) => hlen_res(k) = SomeNum(0)
       /\ (/\ db[k] \in {SetValue({}), HashValue(EmptyHash)}
           /\ max_keys # {}
           /\ size = Unwrap(max_keys)) => ~can_add_key

\* C28 witness: hdel has removed the only field of the hash that fills the
\* store; the key is still there and the store is still full.
C28_Witness ==
  /\ call.op = "hdel"
  /\ HashLen(db0[call.key].h) = 1
  /\ ret = SomeNum(1)
  /\ db[call.key] = HashValue(EmptyHash)
  /\ Full0
  /\ size = Unwrap(max_keys)
  /\ ~can_add_key

\* C29: set called with not_exists and already_exists both true never changes
\* the store: it returns Nil when the key holds a String (not_exists is looked
\* at first), Nil when the key is absent, and WrongValueType when the key holds
\* a Set or a Hash; the map and the ledger are as they were in all three cases.
C29_BothFlags ==
  (call.op = "set" /\ call.not_exists /\ call.already_exists) =>
    /\ db0[call.key].tag = "StringValue" => ret = DBOkNil
    /\ db0[call.key].tag = "Absent" => ret = DBOkNil
    /\ db0[call.key].tag \in {"SetValue", "HashValue"} => ret = ErrWrongValueType
    /\ Untouched

\* C29 witness: set with both flags and an expiry, on a key that holds another
\* String in a store with room, returns Nil.
C29_Witness ==
  /\ call.op = "set"
  /\ call.not_exists
  /\ call.already_exists
  /\ call.expire # {}
  /\ db0[call.key].tag = "StringValue"
  /\ db0[call.key].s # call.value
  /\ Room0
  /\ ret = DBOkNil

SameOutcomes ==
  /\ \A key \in Keys, not_exists \in BOOLEAN, already_exists \in BOOLEAN :
       /\ set_res(key, not_exists, already_exists)' = set_res(key, not_exists, already_exists)
       /\ \A value \in Strs :
            set_db(key, value, set_res(key, not_exists, already_exists))'
              = set_db(key, value, set_res(key, not_exists, already_exists))
  /\ \A key \in Keys :
       /\ get_res(key)' = get_res(key)
       /\ spop_out(key)' = spop_out(key)
       /\ slen_res(key)' = slen_res(key)
       /\ smembers_res(key)' = smembers_res(key)
       /\ hmset_res(key)' = hmset_res(key)
       /\ hkeys_res(key)' = hkeys_res(key)
       /\ hvalues_res(key)' = hvalues_res(key)
       /\ hlen_res(key)' = hlen_res(key)
       /\ exists_res(key)' = exists_res(key)
  /\ \A key \in Keys, members \in MemberLists :
       /\ sadd_res(key, members)' = sadd_res(key, members)
       /\ sadd_db(key, members)' = sadd_db(key, members)
       /\ srem_out(key, members)' = srem_out(key, members)
  /\ \A key \in Keys, count \in Counts :
       srandmember_out(key, count)' = srandmember_out(key, count)
  /\ \A key \in Keys, member \in Strs :
       sismember_res(key, member)' = sismember_res(key, member)
  /\ \A key \in Keys, field \in Fields :
       /\ hset_res(key, field)' = hset_res(key, field)
       /\ \A value \in Strs : hset_db(key, field, value)' = hset_db(key, field, value)
       /\ hget_res(key, field)' = hget_res(key, field)
       /\ hexists_res(key, field)' = hexists_res(key, field)
       /\ hdel_out(key, field)' = hdel_out(key, field)
  /\ \A key \in Keys, pairs \in PairLists :
       hmset_db(key, pairs)' = hmset_db(key, pairs)
  /\ \A key \in Keys, fields \in FieldLists :
       hmget_res(key, fields)' = hmget_res(key, fields)
  /\ \A keys \in KeyLists : del_fold(db, keys, 0)' = del_fold(db, keys, 0)
  /\ size' = size
  /\ can_add_key' = can_add_key

\* C25: the ledger never affects behaviour.  Of two stores with the same
\* capacity and the same map and different ledgers (the store before and the
\* store after a step that changes the ledger alone: a turn to a twin, or a set
\* that rewrites the value a key holds with another expire), every call returns
\* the same result and leaves the same map; the maps being the same again
\* after the call, so it goes on along any common sequence of calls.  With the
\* empty ledger as one of the two: no call hides or removes a key for the
\* expiry recorded for it.
C25_LedgerIsInert ==
  [][(ttl' # ttl /\ db' = db /\ max_keys' = max_keys) => SameOutcomes]_vars

\* C25 witness: the caller has turned from a store whose ledger has no entry
\* for a key that holds a String to a twin that has one.
C25_Witness ==
  /\ call.op = "twin"
  /\ db = db0
  /\ \E k \in Keys :
       /\ db[k].tag = "StringValue"
       /\ ttl0[k] = {}
       /\ ttl[k] = {1}

====
